---- MODULE Spec2Model ----
(***************************************************************************)
(* A state-machine model of the three entry points of the repository:      *)
(*   jammer/jammer.py          (class Jammer and its __main__ block)        *)
(*   jammer/channel_hopper.py  (class ChannelHopper and its __main__ block) *)
(*   jammer/launch.py          (the unified launcher)                       *)
(* Frequencies are in kHz, so that 6 GHz fits a 32-bit integer.  A float    *)
(* is a record [nan, v]: every ordered comparison with NaN is false.        *)
(* The UHD device is the environment: each driver call may return or raise. *)
(* A Python signal handler runs on the main thread between two bytecodes,   *)
(* never while the main thread is inside a driver (C) call.                 *)
(***************************************************************************)
EXTENDS Integers, Sequences, FiniteSets, TLC

(* ---- bounds of the model ---- *)
MaxSignals  == 2     \* signals delivered in one run
MaxHops     == 4     \* successful hops recorded in one run
MaxDuration == 2     \* largest --duration tried (seconds)
MaxRate     == 2     \* largest sample rate tried (samples per second)
NoiseLen    == 2     \* samples in the noise buffer (1024*1024 and 65536 in the code)

(* ---- program constants ---- *)
MinFreq     == 1000       \* 1e6 Hz
MaxFreq     == 6000000    \* 6e9 Hz
CleanupGain == 0          \* set_tx_gain(0, 0)
HopperGain  == 22
HopperRate  == 10000      \* 10e6 samples per second, in kHz
HopperHopMs == 500        \* hop_interval = 0.5 s

Flt(x)  == [nan |-> FALSE, v |-> x]
NaN     == [nan |-> TRUE, v |-> 0]
FLess(a, b)    == ~a.nan /\ ~b.nan /\ a.v < b.v
FGreater(a, b) == ~a.nan /\ ~b.nan /\ a.v > b.v

Range(s) == {s[k] : k \in DOMAIN s}

(* int(a / b) of Python for b > 0: truncation towards zero *)
PyInt(a, b) == IF a >= 0 THEN a \div b ELSE -((-a) \div b)
(* floor(a / b) for b > 0 *)
Floor(a, b) == a \div b

(* jammer.py: the channel table of the __main__ block *)
channels == [ch1 |-> Flt(2412000), ch6 |-> Flt(2437000), ch11 |-> Flt(2462000),
             ch36 |-> Flt(5180000), ch149 |-> Flt(5745000)]
ChannelChoices == {"ch1", "ch6", "ch11", "ch36", "ch149"}

(* ChannelHopper.__init__ *)
channels_24 == <<2412000, 2437000, 2462000>>
channels_5  == <<5180000, 5200000, 5745000>>

(* the samples of a float64 noise buffer, and numpy's astype(complex64):    *)
(* the cast keeps a value that single precision represents and rounds the   *)
(* others                                                                   *)
Samples == {1, 2}
Complex64(x) == 2 * (x \div 2)
NoiseBuffers == [1..NoiseLen -> Samples]
Astype(buf) == [k \in DOMAIN buf |-> Complex64(buf[k])]

(* ---- command lines tried ---- *)
GainInputs     == {-1, 0, 30, 31}
FreqInputs     == {Flt(999), Flt(1000), Flt(2437000), Flt(6000000), Flt(6000001), NaN}
DurationInputs == (-1)..MaxDuration
RateInputs     == 0..MaxRate
NoChannel      == "none"

VARIABLES
  prog,          \* the script that was started
  args,          \* the command line, as given
  pc,            \* position of the main thread
  status,        \* << >> while the process runs, <<code>> once it has exited
  ctor,          \* the constructor call made: class and keyword arguments
  installed,     \* signal.signal(...) has registered signal_handler
  sigs,          \* signals handled so far
  hpc,           \* position of signal_handler on the main thread, "none" if not running
  running,       \* self.running
  noise,         \* self.noise, << >> before generate_noise
  genCount,      \* calls of generate_noise
  tx_buffer,     \* the local tx_buffer of transmit() / jam()
  usrp,          \* self.usrp has been created
  setupGain,     \* << >>, or <<g>>: the gain passed to set_tx_gain during setup
  lastGain,      \* << >>, or <<g>>: the gain of the last set_tx_gain issued
  sendSinceGain, \* a streamer.send was issued after the last set_tx_gain
  tuneReqs,      \* the frequencies passed to set_tx_freq
  sent,          \* the buffers passed to streamer.send
  inDevice,      \* the device operations in progress
  cleaned,       \* cleanup() has run to its end
  needed,        \* transmissions_needed
  i,             \* the loop variable of transmit()
  sendCount,     \* calls of streamer.send made by transmit()
  transmitCalled,\* transmit() has been entered
  exc,           \* what propagates out of transmit() / jam(): "none", "error", "exit"
  lock,          \* owner of self.lock: "free", "main" or "hop"
  streamer,      \* self.streamer is not None
  current_idx,   \* self.current_idx
  hops,          \* target frequencies of the successful hops, in order
  hopPc,         \* position of the hopping thread
  hopFreq,       \* the local freq of hop_channel
  lastFail       \* << >>, or <<f>>: target of the last hop, if it failed

envVars  == <<prog, args>>
procVars == <<pc, status, ctor, installed, sigs, hpc>>
objVars  == <<running, noise, genCount, tx_buffer>>
devVars  == <<usrp, setupGain, lastGain, sendSinceGain, tuneReqs, sent, inDevice, cleaned>>
txVars   == <<needed, i, sendCount, transmitCalled, exc>>
hopVars  == <<lock, streamer, current_idx, hops, hopPc, hopFreq, lastFail>>
vars     == <<envVars, procVars, objVars, devVars, txVars, hopVars>>

NoCtor == [cls |-> "none", freq |-> Flt(0), rate |-> 0, gain |-> 0,
           duration |-> 0, hop_interval |-> 0]

Alive == status = << >>

(* the command lines of the three scripts *)
JammerArgs ==
  [platform : {"none"}, channel : ChannelChoices \cup {NoChannel, "ch2"},
   freq : FreqInputs, gain : GainInputs, duration : DurationInputs,
   rate : RateInputs, hop : {FALSE}, hop_interval : {0},
   full_band : {FALSE}, deps : {TRUE}]
LaunchArgs ==
  [platform : {"usrp", "hackrf", "gnuradio"}, channel : {NoChannel},
   freq : {Flt(2437000), NaN}, gain : GainInputs, duration : {-1, MaxDuration},
   rate : {MaxRate}, hop : BOOLEAN, hop_interval : {HopperHopMs},
   full_band : BOOLEAN, deps : BOOLEAN]
HopperArgs ==
  [platform : {"none"}, channel : {NoChannel}, freq : {Flt(0)},
   gain : {HopperGain}, duration : {0}, rate : {HopperRate}, hop : {TRUE},
   hop_interval : {HopperHopMs}, full_band : {FALSE}, deps : {TRUE}]

Init ==
  /\ prog \in {"jammer", "hopper", "launch"}
  /\ args \in (CASE prog = "jammer" ->
                      {a \in JammerArgs :
                         \* --channel and --freq are mutually exclusive, one is required
                         \/ a.channel # NoChannel /\ a.freq = Flt(2437000)
                         \/ a.channel = NoChannel}
                 [] prog = "hopper" -> HopperArgs
                 [] OTHER -> LaunchArgs)
  /\ pc = (CASE prog = "jammer" -> "m_parse"
             [] prog = "hopper" -> "h_main"
             [] OTHER -> "l_deps")
  /\ status = << >>
  /\ ctor = NoCtor
  /\ installed = FALSE
  /\ sigs = 0
  /\ hpc = "none"
  /\ running = FALSE
  /\ noise = << >>
  /\ genCount = 0
  /\ tx_buffer = << >>
  /\ usrp = FALSE
  /\ setupGain = << >>
  /\ lastGain = << >>
  /\ sendSinceGain = FALSE
  /\ tuneReqs = {}
  /\ sent = {}
  /\ inDevice = {}
  /\ cleaned = FALSE
  /\ needed = 0
  /\ i = 0
  /\ sendCount = 0
  /\ transmitCalled = FALSE
  /\ exc = "none"
  /\ lock = "free"
  /\ streamer = FALSE
  /\ current_idx = 0
  /\ hops = << >>
  /\ hopPc = "idle"
  /\ hopFreq = 0
  /\ lastFail = << >>

(* the main thread executes its own code: the process is alive and no      *)
(* signal handler is running on top of it                                   *)
MainAt(p) == Alive /\ hpc = "none" /\ pc = p

Exit(code) == pc' = "exited" /\ status' = <<code>>

(***************************************************************************)
(* jammer.py: parse_arguments and the __main__ block                        *)
(***************************************************************************)
(* variant: --gain with type=int and no choices, as in launch.py *)
ParseGainAny(g) == TRUE
(* --gain: type=int, choices=range(0, 31) *)
ParseGainOk(g) == g \in 0..30

(* argparse rejects a value outside its choices with exit status 2 *)
ParseArguments ==
  /\ MainAt("m_parse")
  /\ IF ParseGainOk(args.gain) /\ args.channel \in ChannelChoices \cup {NoChannel}
       THEN pc' = "m_validate" /\ status' = status
       ELSE Exit(2)
  /\ UNCHANGED <<envVars, ctor, installed, sigs, hpc, objVars, devVars, txVars, hopVars>>

(* "Determine frequency" *)
ResolvedFreq == IF args.channel # NoChannel THEN channels[args.channel] ELSE args.freq

(* "Validate frequency range": freq < 1e6 or freq > 6e9 *)
FreqRejected(f) == FLess(f, Flt(MinFreq)) \/ FGreater(f, Flt(MaxFreq))

ValidateFrequency ==
  /\ MainAt("m_validate")
  /\ IF FreqRejected(ResolvedFreq)
       THEN Exit(1) /\ ctor' = ctor
       ELSE /\ ctor' = [cls |-> "Jammer", freq |-> ResolvedFreq, rate |-> args.rate,
                        gain |-> args.gain, duration |-> args.duration,
                        hop_interval |-> 0]
            /\ pc' = "j_init"
            /\ status' = status
  /\ UNCHANGED <<envVars, installed, sigs, hpc, objVars, devVars, txVars, hopVars>>

(***************************************************************************)
(* class Jammer                                                             *)
(***************************************************************************)
(* init_usrp and setup_usrp: any driver call may raise; the exception is    *)
(* logged and raised again, and the script exits with status 1              *)
InitUsrpSteps == <<"create", "rate", "freq", "gain", "antenna", "none">>
StepNo(f) == CHOOSE k \in DOMAIN InitUsrpSteps : InitUsrpSteps[k] = f

JammerInitUsrp ==
  /\ MainAt("j_init")
  /\ \E fail \in Range(InitUsrpSteps) :
       /\ usrp' = (fail # "create")
       /\ tuneReqs' = IF StepNo(fail) >= StepNo("freq")
                        THEN tuneReqs \cup {ctor.freq} ELSE tuneReqs
       /\ IF StepNo(fail) >= StepNo("gain")
            THEN /\ setupGain' = <<ctor.gain>>
                 /\ lastGain' = <<ctor.gain>>
                 /\ sendSinceGain' = FALSE
            ELSE UNCHANGED <<setupGain, lastGain, sendSinceGain>>
       /\ IF fail = "none" THEN pc' = "j_noise" /\ status' = status ELSE Exit(1)
  /\ UNCHANGED <<envVars, ctor, installed, sigs, hpc, objVars, sent, inDevice, cleaned,
                 txVars, hopVars>>

(* generate_noise(1024 * 1024) *)
JammerGenerateNoise ==
  /\ MainAt("j_noise")
  /\ \E n \in NoiseBuffers : noise' = n
  /\ genCount' = genCount + 1
  /\ pc' = "j_signal"
  /\ UNCHANGED <<envVars, status, ctor, installed, sigs, hpc, running, tx_buffer,
                 devVars, txVars, hopVars>>

(* signal.signal(SIGINT / SIGTERM, self.signal_handler) *)
JammerInstall ==
  /\ MainAt("j_signal")
  /\ installed' = TRUE
  /\ pc' = "m_transmit"
  /\ UNCHANGED <<envVars, status, ctor, sigs, hpc, objVars, devVars, txVars, hopVars>>

(* transmit(), up to the loop: the streamer, the copy of the buffer,        *)
(* running = True and transmissions_needed                                  *)
TransmissionsNeeded == PyInt(ctor.duration * ctor.rate, Len(noise))

(* variant: the buffer of zeros, never filled from self.noise *)
PrefillZeros(buf) == [k \in DOMAIN buf |-> 0]
(* tx_buffer = np.zeros(num_samps, dtype=np.complex64); tx_buffer[:] = self.noise[:] *)
PrefillTxBuffer(buf) == Astype(buf)

TransmitStart ==
  /\ MainAt("m_transmit")
  /\ transmitCalled' = TRUE
  /\ \E ok \in BOOLEAN :
       IF ~ok
         THEN \* get_tx_streamer raises
              /\ exc' = "error"
              /\ pc' = "t_finally"
              /\ UNCHANGED <<tx_buffer, running, needed, i>>
         ELSE /\ tx_buffer' = PrefillTxBuffer(noise)
              /\ running' = TRUE
              /\ IF ctor.rate = 0
                   THEN \* num_samps / self.rate: ZeroDivisionError
                        /\ exc' = "error"
                        /\ pc' = "t_finally"
                        /\ UNCHANGED <<needed, i>>
                   ELSE /\ needed' = TransmissionsNeeded
                        /\ i' = 0
                        /\ pc' = "t_loop"
                        /\ exc' = exc
  /\ UNCHANGED <<envVars, status, ctor, installed, sigs, hpc, noise, genCount,
                 devVars, sendCount, hopVars>>

(* variant: range(transmissions_needed + 1) *)
LoopContinuesInclusive == i <= needed /\ running
(* for i in range(transmissions_needed): if not self.running: break *)
LoopContinues == i < needed /\ running

TransmitLoop ==
  /\ MainAt("t_loop")
  /\ pc' = IF LoopContinues THEN "t_send" ELSE "t_finally"
  /\ UNCHANGED <<envVars, status, ctor, installed, sigs, hpc, objVars, devVars,
                 txVars, hopVars>>

(* streamer.send(tx_buffer, metadata): UsrpError is logged and the loop     *)
(* goes on with the next i; any other exception leaves transmit()           *)
TransmitSend ==
  /\ MainAt("t_send")
  /\ sent' = sent \cup {tx_buffer}
  /\ sendSinceGain' = TRUE
  /\ sendCount' = sendCount + 1
  /\ i' = i + 1
  /\ \E r \in {"ok", "UsrpError", "Exception"} :
       IF r = "Exception"
         THEN exc' = "error" /\ pc' = "t_finally"
         ELSE exc' = exc /\ pc' = "t_loop"
  /\ UNCHANGED <<envVars, status, ctor, installed, sigs, hpc, objVars, usrp, setupGain,
                 lastGain, tuneReqs, inDevice, cleaned, needed, transmitCalled, hopVars>>

(* variant: a cleanup() that leaves the gain as it is *)
JammerNoCleanup == UNCHANGED <<lastGain, sendSinceGain, cleaned>>
(* Jammer.cleanup: set_tx_gain(0, 0); an exception of the call is logged *)
JammerCleanup ==
  /\ IF usrp
       THEN lastGain' = <<CleanupGain>> /\ sendSinceGain' = FALSE
       ELSE UNCHANGED <<lastGain, sendSinceGain>>
  /\ cleaned' = TRUE

(* finally: self.cleanup(); then the exception, if any, reaches the caller, *)
(* which exits with status 1 (SystemExit keeps its status 0)                *)
TransmitFinally ==
  /\ MainAt("t_finally")
  /\ JammerCleanup
  /\ Exit(IF exc = "error" THEN 1 ELSE 0)
  /\ UNCHANGED <<envVars, ctor, installed, sigs, hpc, objVars, usrp, setupGain,
                 tuneReqs, sent, inDevice, txVars, hopVars>>

(* SIGINT or SIGTERM arrives and Jammer.signal_handler starts on the main   *)
(* thread; a signal that arrives while the handler runs starts it again on  *)
(* top of the first                                                         *)
JammerSignal ==
  /\ Alive /\ installed /\ ctor.cls = "Jammer"
  /\ sigs < MaxSignals
  /\ sigs' = sigs + 1
  /\ hpc' = "js_running"
  /\ UNCHANGED <<envVars, pc, status, ctor, installed, objVars, devVars, txVars, hopVars>>

JammerHandlerStop ==
  /\ Alive /\ hpc = "js_running"
  /\ running' = FALSE
  /\ hpc' = "js_cleanup"
  /\ UNCHANGED <<envVars, pc, status, ctor, installed, sigs, noise, genCount, tx_buffer,
                 devVars, txVars, hopVars>>

JammerHandlerCleanup ==
  /\ Alive /\ hpc = "js_cleanup"
  /\ JammerCleanup
  /\ hpc' = "js_exit"
  /\ UNCHANGED <<envVars, pc, status, ctor, installed, sigs, objVars, usrp, setupGain,
                 tuneReqs, sent, inDevice, txVars, hopVars>>

(* sys.exit(0): SystemExit unwinds the interrupted frame; inside the try of *)
(* transmit() it runs the finally clause, elsewhere the process exits       *)
JammerHandlerExit ==
  /\ Alive /\ hpc = "js_exit"
  /\ hpc' = "none"
  /\ IF pc \in {"t_loop", "t_send"}
       THEN pc' = "t_finally" /\ exc' = "exit" /\ status' = status
       ELSE Exit(0) /\ exc' = exc
  /\ UNCHANGED <<envVars, ctor, installed, sigs, objVars, devVars, needed, i, sendCount,
                 transmitCalled, hopVars>>

NextJammer ==
  \/ ParseArguments
  \/ ValidateFrequency
  \/ JammerInitUsrp
  \/ JammerGenerateNoise
  \/ JammerInstall
  \/ TransmitStart
  \/ TransmitLoop
  \/ TransmitSend
  \/ TransmitFinally
  \/ JammerSignal
  \/ JammerHandlerStop
  \/ JammerHandlerCleanup
  \/ JammerHandlerExit

(***************************************************************************)
(* class ChannelHopper (jammer/channel_hopper.py)                           *)
(***************************************************************************)
(* threading.Lock: "with self.lock" blocks until the lock is free; the lock *)
(* is not reentrant, so its owner blocks as well                            *)
LockAcquire(t) == lock = "free" /\ lock' = t
LockRelease(t) == lock' = IF lock = t THEN "free" ELSE lock

(* __main__: ChannelHopper(rate=10e6, gain=22, hop_interval=0.5) *)
HopperMain ==
  /\ MainAt("h_main")
  /\ ctor' = [cls |-> "ChannelHopper", freq |-> Flt(0), rate |-> HopperRate,
              gain |-> HopperGain, duration |-> 0, hop_interval |-> HopperHopMs]
  /\ pc' = "h_init"
  /\ UNCHANGED <<envVars, status, installed, sigs, hpc, objVars, devVars, txVars, hopVars>>

(* init_hardware: MultiUSRP(...) and the device queries may raise; then the *)
(* noise buffer is generated                                                *)
HopperInitHardware ==
  /\ MainAt("h_init")
  /\ \E ok \in BOOLEAN :
       IF ok
         THEN /\ usrp' = TRUE
              /\ \E n \in NoiseBuffers : noise' = n
              /\ genCount' = genCount + 1
              /\ pc' = "h_signal"
              /\ status' = status
         ELSE /\ Exit(1)
              /\ UNCHANGED <<usrp, noise, genCount>>
  /\ UNCHANGED <<envVars, ctor, installed, sigs, hpc, running, tx_buffer, setupGain,
                 lastGain, sendSinceGain, tuneReqs, sent, inDevice, cleaned, txVars,
                 hopVars>>

HopperInstall ==
  /\ MainAt("h_signal")
  /\ installed' = TRUE
  /\ pc' = "jam_start"
  /\ UNCHANGED <<envVars, status, ctor, sigs, hpc, objVars, devVars, txVars, hopVars>>

(* jam(): self.running = True *)
JamStart ==
  /\ MainAt("jam_start")
  /\ running' = TRUE
  /\ pc' = "setup_acq"
  /\ UNCHANGED <<envVars, status, ctor, installed, sigs, hpc, noise, genCount, tx_buffer,
                 devVars, txVars, hopVars>>

(* setup_tx: with self.lock *)
SetupAcquire ==
  /\ MainAt("setup_acq")
  /\ LockAcquire("main")
  /\ pc' = "setup_locked"
  /\ UNCHANGED <<envVars, status, ctor, installed, sigs, hpc, objVars, devVars, txVars,
                 streamer, current_idx, hops, hopPc, hopFreq, lastFail>>

(* setup_tx: the configuration calls start *)
SetupCall ==
  /\ MainAt("setup_locked")
  /\ inDevice' = inDevice \cup {"setup"}
  /\ pc' = "setup_in"
  /\ UNCHANGED <<envVars, status, ctor, installed, sigs, hpc, objVars, usrp, setupGain,
                 lastGain, sendSinceGain, tuneReqs, sent, cleaned, txVars, hopVars>>

(* setup_tx: the calls return or one of them raises; an exception leaves   *)
(* the with block, is logged and raised again by setup_tx and by jam()      *)
SetupTxSteps == <<"rate", "gain", "antenna", "streamer", "none">>
SetupStepNo(f) == CHOOSE k \in DOMAIN SetupTxSteps : SetupTxSteps[k] = f

SetupReturn ==
  /\ MainAt("setup_in")
  /\ inDevice' = inDevice \ {"setup"}
  /\ \E fail \in Range(SetupTxSteps) :
       /\ IF SetupStepNo(fail) >= SetupStepNo("gain")
            THEN /\ setupGain' = <<ctor.gain>>
                 /\ lastGain' = <<ctor.gain>>
                 /\ sendSinceGain' = FALSE
            ELSE UNCHANGED <<setupGain, lastGain, sendSinceGain>>
       /\ IF fail = "none"
            THEN /\ streamer' = TRUE
                 /\ pc' = "setup_rel"
                 /\ UNCHANGED <<lock, exc>>
            ELSE /\ LockRelease("main")
                 /\ exc' = "error"
                 /\ pc' = "fin_acq"
                 /\ streamer' = streamer
  /\ UNCHANGED <<envVars, status, ctor, installed, sigs, hpc, objVars, usrp, tuneReqs,
                 sent, cleaned, needed, i, sendCount, transmitCalled, current_idx, hops,
                 hopPc, hopFreq, lastFail>>

SetupRelease ==
  /\ MainAt("setup_rel")
  /\ LockRelease("main")
  /\ pc' = "start_thread"
  /\ UNCHANGED <<envVars, status, ctor, installed, sigs, hpc, objVars, devVars, txVars,
                 streamer, current_idx, hops, hopPc, hopFreq, lastFail>>

(* jam(): the hopping thread is started; tx_buffer = noise.astype(complex64) *)
StartThread ==
  /\ MainAt("start_thread")
  /\ hopPc' = "h_loop"
  /\ tx_buffer' = Astype(noise)
  /\ pc' = "jam_loop"
  /\ UNCHANGED <<envVars, status, ctor, installed, sigs, hpc, running, noise, genCount,
                 devVars, txVars, lock, streamer, current_idx, hops, hopFreq, lastFail>>

(* jam(): while self.running *)
JamLoop ==
  /\ MainAt("jam_loop")
  /\ pc' = IF running THEN "send_acq" ELSE "fin_acq"
  /\ UNCHANGED <<envVars, status, ctor, installed, sigs, hpc, objVars, devVars, txVars,
                 hopVars>>

SendAcquire ==
  /\ MainAt("send_acq")
  /\ LockAcquire("main")
  /\ pc' = "send_locked"
  /\ UNCHANGED <<envVars, status, ctor, installed, sigs, hpc, objVars, devVars, txVars,
                 streamer, current_idx, hops, hopPc, hopFreq, lastFail>>

(* if self.streamer: self.streamer.send(tx_buffer, metadata) *)
SendCall ==
  /\ MainAt("send_locked")
  /\ IF streamer
       THEN inDevice' = inDevice \cup {"send"} /\ pc' = "send_in"
       ELSE inDevice' = inDevice /\ pc' = "send_rel"
  /\ UNCHANGED <<envVars, status, ctor, installed, sigs, hpc, objVars, usrp, setupGain,
                 lastGain, sendSinceGain, tuneReqs, sent, cleaned, txVars, hopVars>>

(* send returns, or raises: the exception leaves the with block, is logged, *)
(* and the loop goes on after a pause                                       *)
SendReturn ==
  /\ MainAt("send_in")
  /\ inDevice' = inDevice \ {"send"}
  /\ sent' = sent \cup {tx_buffer}
  /\ sendSinceGain' = TRUE
  /\ \E ok \in BOOLEAN :
       IF ok THEN pc' = "send_rel" /\ lock' = lock
             ELSE pc' = "jam_loop" /\ LockRelease("main")
  /\ UNCHANGED <<envVars, status, ctor, installed, sigs, hpc, objVars, usrp, setupGain,
                 lastGain, tuneReqs, cleaned, txVars, streamer, current_idx, hops, hopPc,
                 hopFreq, lastFail>>

SendRelease ==
  /\ MainAt("send_rel")
  /\ LockRelease("main")
  /\ pc' = "jam_loop"
  /\ UNCHANGED <<envVars, status, ctor, installed, sigs, hpc, objVars, devVars, txVars,
                 streamer, current_idx, hops, hopPc, hopFreq, lastFail>>

(* ---- cleanup(), called from the finally clause of jam() ---- *)
FinAcquire ==
  /\ MainAt("fin_acq")
  /\ LockAcquire("main")
  /\ pc' = "fin_locked"
  /\ UNCHANGED <<envVars, status, ctor, installed, sigs, hpc, objVars, devVars, txVars,
                 streamer, current_idx, hops, hopPc, hopFreq, lastFail>>

(* self.streamer = None; set_tx_gain(0, 0) starts *)
FinCall ==
  /\ MainAt("fin_locked")
  /\ streamer' = FALSE
  /\ IF usrp
       THEN inDevice' = inDevice \cup {"reset"} /\ pc' = "fin_in"
       ELSE inDevice' = inDevice /\ pc' = "fin_rel"
  /\ UNCHANGED <<envVars, status, ctor, installed, sigs, hpc, objVars, usrp, setupGain,
                 lastGain, sendSinceGain, tuneReqs, sent, cleaned, txVars, lock,
                 current_idx, hops, hopPc, hopFreq, lastFail>>

(* set_tx_gain(0, 0) returns; an exception of the call is swallowed *)
FinReturn ==
  /\ MainAt("fin_in")
  /\ inDevice' = inDevice \ {"reset"}
  /\ lastGain' = <<CleanupGain>>
  /\ sendSinceGain' = FALSE
  /\ pc' = "fin_rel"
  /\ UNCHANGED <<envVars, status, ctor, installed, sigs, hpc, objVars, usrp, setupGain,
                 tuneReqs, sent, cleaned, txVars, hopVars>>

(* the with block of cleanup() ends and jam() is left: the exception, if    *)
(* any, reaches __main__, which exits with status 1                         *)
FinRelease ==
  /\ MainAt("fin_rel")
  /\ LockRelease("main")
  /\ cleaned' = TRUE
  /\ Exit(IF exc = "error" THEN 1 ELSE 0)
  /\ UNCHANGED <<envVars, ctor, installed, sigs, hpc, objVars, usrp, setupGain, lastGain,
                 sendSinceGain, tuneReqs, sent, inDevice, txVars, streamer, current_idx,
                 hops, hopPc, hopFreq, lastFail>>

(* ---- the hopping thread: hop_channel ---- *)
(* variant: the index is advanced before it is read *)
HopTargetFromOne(idx) == channels_24[((idx + 1) % Len(channels_24)) + 1]
(* freq = self.channels_24[self.current_idx % len(self.channels_24)] *)
HopTarget(idx) == channels_24[(idx % Len(channels_24)) + 1]

(* variant: self.current_idx += 1 placed before the tuning calls *)
IdxAfterHopAlways(ok, idx) == idx + 1
(* self.current_idx += 1 is the last statement of the with block *)
IdxAfterHop(ok, idx) == IF ok THEN idx + 1 ELSE idx

(* variant: hop_channel without the lock, as in the top-level channel_hopper.py *)
HopEnterNoLock == lock' = lock
(* with self.lock, in hop_channel *)
HopEnter == LockAcquire("hop")

(* while self.running *)
HopLoop ==
  /\ Alive /\ hopPc = "h_loop"
  /\ running => Len(hops) < MaxHops
  /\ hopPc' = IF running THEN "hop_acq" ELSE "hop_done"
  /\ UNCHANGED <<envVars, procVars, objVars, devVars, txVars, lock, streamer, current_idx,
                 hops, hopFreq, lastFail>>

HopAcquire ==
  /\ Alive /\ hopPc = "hop_acq"
  /\ HopEnter
  /\ hopFreq' = HopTarget(current_idx)
  /\ hopPc' = "hop_locked"
  /\ UNCHANGED <<envVars, procVars, objVars, devVars, txVars, streamer, current_idx, hops,
                 lastFail>>

(* set_tx_freq(tune_req, 0) starts *)
HopCall ==
  /\ Alive /\ hopPc = "hop_locked"
  /\ inDevice' = inDevice \cup {"retune"}
  /\ tuneReqs' = tuneReqs \cup {Flt(hopFreq)}
  /\ hopPc' = "hop_in"
  /\ UNCHANGED <<envVars, procVars, objVars, usrp, setupGain, lastGain, sendSinceGain,
                 sent, cleaned, txVars, lock, streamer, current_idx, hops, hopFreq,
                 lastFail>>

(* set_tx_freq and get_tx_freq return, or one of them raises: the exception *)
(* leaves the with block and is logged ("Continue running despite hop       *)
(* failures")                                                               *)
HopReturn ==
  /\ Alive /\ hopPc = "hop_in"
  /\ inDevice' = inDevice \ {"retune"}
  /\ \E r \in {"ok", "set_tx_freq raises", "get_tx_freq raises"} :
       /\ current_idx' = IdxAfterHop(r = "ok", current_idx)
       /\ IF r = "ok"
            THEN /\ hops' = Append(hops, hopFreq)
                 /\ lastFail' = << >>
                 /\ hopPc' = "hop_rel"
                 /\ lock' = lock
            ELSE /\ hops' = hops
                 /\ lastFail' = <<hopFreq>>
                 /\ hopPc' = "hop_sleep"
                 /\ LockRelease("hop")
  /\ UNCHANGED <<envVars, procVars, objVars, usrp, setupGain, lastGain, sendSinceGain,
                 tuneReqs, sent, cleaned, txVars, streamer, hopFreq>>

HopRelease ==
  /\ Alive /\ hopPc = "hop_rel"
  /\ LockRelease("hop")
  /\ hopPc' = "hop_sleep"
  /\ UNCHANGED <<envVars, procVars, objVars, devVars, txVars, streamer, current_idx, hops,
                 hopFreq, lastFail>>

(* time.sleep(self.hop_interval) *)
HopSleep ==
  /\ Alive /\ hopPc = "hop_sleep"
  /\ hopPc' = "h_loop"
  /\ UNCHANGED <<envVars, procVars, objVars, devVars, txVars, lock, streamer, current_idx,
                 hops, hopFreq, lastFail>>

(* ---- ChannelHopper.signal_handler, on the main thread ---- *)
MainInCall    == {"setup_in", "send_in", "fin_in"}
HandlerInCall == {"hc_in"}

(* a signal is handled between two bytecodes of the main thread; one that   *)
(* arrives while the handler runs starts the handler again on top of it     *)
HopperSignal ==
  /\ Alive /\ installed /\ ctor.cls = "ChannelHopper"
  /\ sigs < MaxSignals
  /\ pc \notin MainInCall /\ hpc \notin HandlerInCall
  /\ sigs' = sigs + 1
  /\ hpc' = "hs_running"
  /\ UNCHANGED <<envVars, pc, status, ctor, installed, objVars, devVars, txVars, hopVars>>

HopperHandlerStop ==
  /\ Alive /\ hpc = "hs_running"
  /\ running' = FALSE
  /\ hpc' = "hs_join"
  /\ UNCHANGED <<envVars, pc, status, ctor, installed, sigs, noise, genCount, tx_buffer,
                 devVars, txVars, hopVars>>

(* hopper_thread.join(timeout=2.0) returns when the thread has ended or the *)
(* two seconds have passed                                                  *)
HopperHandlerJoin ==
  /\ Alive /\ hpc = "hs_join"
  /\ hpc' = "hc_acq"
  /\ UNCHANGED <<envVars, pc, status, ctor, installed, sigs, objVars, devVars, txVars,
                 hopVars>>

(* cleanup(), called from signal_handler *)
HandlerCleanupAcquire ==
  /\ Alive /\ hpc = "hc_acq"
  /\ LockAcquire("main")
  /\ hpc' = "hc_locked"
  /\ UNCHANGED <<envVars, pc, status, ctor, installed, sigs, objVars, devVars, txVars,
                 streamer, current_idx, hops, hopPc, hopFreq, lastFail>>

HandlerCleanupCall ==
  /\ Alive /\ hpc = "hc_locked"
  /\ streamer' = FALSE
  /\ IF usrp
       THEN inDevice' = inDevice \cup {"reset"} /\ hpc' = "hc_in"
       ELSE inDevice' = inDevice /\ hpc' = "hc_rel"
  /\ UNCHANGED <<envVars, pc, status, ctor, installed, sigs, objVars, usrp, setupGain,
                 lastGain, sendSinceGain, tuneReqs, sent, cleaned, txVars, lock,
                 current_idx, hops, hopPc, hopFreq, lastFail>>

HandlerCleanupReturn ==
  /\ Alive /\ hpc = "hc_in"
  /\ inDevice' = inDevice \ {"reset"}
  /\ lastGain' = <<CleanupGain>>
  /\ sendSinceGain' = FALSE
  /\ hpc' = "hc_rel"
  /\ UNCHANGED <<envVars, pc, status, ctor, installed, sigs, objVars, usrp, setupGain,
                 tuneReqs, sent, cleaned, txVars, hopVars>>

HandlerCleanupRelease ==
  /\ Alive /\ hpc = "hc_rel"
  /\ LockRelease("main")
  /\ cleaned' = TRUE
  /\ hpc' = "hs_exit"
  /\ UNCHANGED <<envVars, pc, status, ctor, installed, sigs, objVars, usrp, setupGain,
                 lastGain, sendSinceGain, tuneReqs, sent, inDevice, txVars, streamer,
                 current_idx, hops, hopPc, hopFreq, lastFail>>

(* sys.exit(0): SystemExit unwinds the interrupted frames, leaving their    *)
(* with blocks; inside the try of jam() it runs the finally clause          *)
JamTry == {"setup_acq", "setup_locked", "setup_rel", "start_thread", "jam_loop",
           "send_acq", "send_locked", "send_rel"}

HopperHandlerExit ==
  /\ Alive /\ hpc = "hs_exit"
  /\ hpc' = "none"
  /\ LockRelease("main")
  /\ IF pc \in JamTry
       THEN pc' = "fin_acq" /\ exc' = "exit" /\ status' = status
       ELSE Exit(0) /\ exc' = exc
  /\ UNCHANGED <<envVars, ctor, installed, sigs, objVars, devVars, needed, i, sendCount,
                 transmitCalled, streamer, current_idx, hops, hopPc, hopFreq, lastFail>>

MainThreadHopper ==
  \/ HopperMain
  \/ HopperInitHardware
  \/ HopperInstall
  \/ JamStart
  \/ SetupAcquire
  \/ SetupCall
  \/ SetupReturn
  \/ SetupRelease
  \/ StartThread
  \/ JamLoop
  \/ SendAcquire
  \/ SendCall
  \/ SendReturn
  \/ SendRelease
  \/ FinAcquire
  \/ FinCall
  \/ FinReturn
  \/ FinRelease
  \/ HopperHandlerStop
  \/ HopperHandlerJoin
  \/ HandlerCleanupAcquire
  \/ HandlerCleanupCall
  \/ HandlerCleanupReturn
  \/ HandlerCleanupRelease
  \/ HopperHandlerExit

HopThread ==
  \/ HopLoop
  \/ HopAcquire
  \/ HopCall
  \/ HopReturn
  \/ HopRelease
  \/ HopSleep

NextHopper == MainThreadHopper \/ HopThread \/ HopperSignal

(***************************************************************************)
(* launch.py                                                                *)
(***************************************************************************)
(* the option strings of each add_argument call; argparse names the         *)
(* attribute of the namespace after the first long option string            *)
LaunchOptions == {<<"usrp">>, <<"hackrf">>, <<"gnuradio">>, <<"freq", "frequency">>,
                  <<"rate">>, <<"gain">>, <<"duration">>, <<"hop", "channel_hop">>,
                  <<"hop_interval">>, <<"full_band">>}
Dest(o) == o[1]
LaunchNamespace == {Dest(o) : o \in LaunchOptions}

(* if args.usrp and not check_dependencies(): sys.exit(1) *)
LaunchCheckDeps ==
  /\ MainAt("l_deps")
  /\ IF args.platform = "usrp" /\ ~args.deps
       THEN Exit(1)
       ELSE pc' = "l_dispatch" /\ status' = status
  /\ UNCHANGED <<envVars, ctor, installed, sigs, hpc, objVars, devVars, txVars, hopVars>>

(* main(): the dispatch.  launch_usrp_jammer reads args.channel_hop and     *)
(* args.frequency; reading an attribute the namespace does not have raises  *)
(* AttributeError, which main() reports before sys.exit(1).  The HackRF and *)
(* GNU Radio launchers run a subprocess and return.                         *)
LaunchDispatch ==
  /\ MainAt("l_dispatch")
  /\ IF args.platform = "usrp"
       THEN IF "channel_hop" \notin LaunchNamespace
              THEN Exit(1) /\ ctor' = ctor
              ELSE IF args["channel_hop"]
                     THEN /\ ctor' = [cls |-> "ChannelHopper", freq |-> Flt(0),
                                      rate |-> args.rate, gain |-> args.gain,
                                      duration |-> 0,
                                      hop_interval |-> args.hop_interval]
                          /\ pc' = "h_init"
                          /\ status' = status
                     ELSE IF "frequency" \notin LaunchNamespace
                            THEN Exit(1) /\ ctor' = ctor
                            ELSE /\ ctor' = [cls |-> "Jammer",
                                             freq |-> args["frequency"],
                                             rate |-> args.rate, gain |-> args.gain,
                                             duration |-> args.duration,
                                             hop_interval |-> 0]
                                 /\ pc' = "j_init"
                                 /\ status' = status
       ELSE Exit(0) /\ ctor' = ctor
  /\ UNCHANGED <<envVars, installed, sigs, hpc, objVars, devVars, txVars, hopVars>>

NextLaunch == LaunchCheckDeps \/ LaunchDispatch

Next == NextJammer \/ NextHopper \/ NextLaunch

Spec == Init /\ [][Next]_vars

(* the per-script and the fair specifications *)
MainThreadJammer ==
  \/ ParseArguments
  \/ ValidateFrequency
  \/ JammerInitUsrp
  \/ JammerGenerateNoise
  \/ JammerInstall
  \/ TransmitStart
  \/ TransmitLoop
  \/ TransmitSend
  \/ TransmitFinally
  \/ JammerHandlerStop
  \/ JammerHandlerCleanup
  \/ JammerHandlerExit

InitJammer == Init /\ prog = "jammer"
InitHopper == Init /\ prog = "hopper"

(* CPython runs the main thread and, through the interpreter lock's        *)
(* switching, every other runnable thread; signals come when they come      *)
FairJammer == InitJammer /\ [][NextJammer]_vars /\ WF_vars(MainThreadJammer)
FairHopper == InitHopper /\ [][NextHopper]_vars
                /\ WF_vars(MainThreadHopper) /\ WF_vars(HopThread)

(***************************************************************************)
(* The claims                                                               *)
(***************************************************************************)
IsJammer == ctor.cls = "Jammer"
IsHopper == ctor.cls = "ChannelHopper"

(* C1: in ChannelHopper, whenever signal_handler starts while jam() runs,   *)
(* the graceful shutdown completes: running is False, cleanup() has ended   *)
(* (streamer None, TX gain reset to 0) and the process has exited with 0.   *)
C1_GracefulShutdown ==
  (IsHopper /\ hpc = "hs_running" /\ pc \in JamTry)
    ~> (status = <<0>> /\ ~running /\ ~streamer /\ cleaned /\ lastGain = <<0>>)

(* C2: in Jammer, however transmit() ends, cleanup() was executed, the last *)
(* gain command issued is set_tx_gain(0, 0) and no send follows it.         *)
C2_CleanupLast ==
  (IsJammer /\ transmitCalled /\ ~Alive)
    => (cleaned /\ lastGain = <<0>> /\ ~sendSinceGain)

C2_Witness ==
  /\ IsJammer /\ transmitCalled /\ ~Alive
  /\ sigs > 0 /\ sendCount > 0 /\ ctor.gain > 0 /\ exc = "exit"

(* C3, as stated: transmit() issues at most floor(duration / (len(noise) /  *)
(* rate)) calls of streamer.send.                                           *)
C3_AtMostFloor ==
  (IsJammer /\ transmitCalled /\ ctor.rate > 0)
    => sendCount <= Floor(ctor.duration * ctor.rate, Len(noise))

(* C3, amended: transmit() always terminates; it issues at most             *)
(* max(0, transmissions_needed) calls of streamer.send, where               *)
(* transmissions_needed = int(duration / (len(noise) / rate)) truncates     *)
(* towards zero; and once running is False it issues no further send.       *)
Max0(x) == IF x > 0 THEN x ELSE 0

C3_Terminates ==
  /\ []((IsJammer /\ transmitCalled)
          => /\ ctor.rate > 0 => sendCount <= Max0(TransmissionsNeeded)
             /\ ctor.rate = 0 => sendCount = 0)
  /\ [][(transmitCalled /\ ~running) => sendCount' = sendCount]_vars
  /\ ((IsJammer /\ transmitCalled) ~> ~Alive)

C3_Witness ==
  /\ IsJammer /\ ~Alive /\ sigs = 0
  /\ sendCount = MaxDuration /\ sendCount = TransmissionsNeeded

(* C4: in ChannelHopper the k-th successful hop tunes to                    *)
(* channels_24[(k-1) mod 3], that is 2.412, 2.437, 2.462 GHz cyclically     *)
(* from index 0, and no frequency outside channels_24 is ever tuned.        *)
C4_HopOrder ==
  IsHopper =>
    /\ \A k \in 1..Len(hops) :
         hops[k] = <<2412000, 2437000, 2462000>>[((k - 1) % 3) + 1]
    /\ \A f \in tuneReqs : ~f.nan /\ f.v \in Range(channels_24)
    /\ \A f \in tuneReqs : f.v \notin Range(channels_5)

C4_Witness == IsHopper /\ Len(hops) >= 4 /\ hops[4] = hops[1] /\ current_idx = 4

(* C5: the noise buffer is generated exactly once, during construction;     *)
(* every streamer.send sends that buffer (as complex64); nothing after      *)
(* construction regenerates or modifies it.                                 *)
C5_NoiseReplayed ==
  /\ [](/\ genCount <= 1
        /\ installed => genCount = 1 /\ noise \in NoiseBuffers
        /\ sent \subseteq {Astype(noise)})
  /\ [][installed => (noise' = noise /\ genCount' = genCount)]_vars

C5_Witness ==
  /\ sent # {} /\ cleaned /\ sigs > 0
  /\ \E k \in DOMAIN noise : Complex64(noise[k]) # noise[k]

(* C6: the launcher dispatches by its flags: --usrp --hop constructs a      *)
(* ChannelHopper with the parsed rate, gain and hop interval; --usrp alone  *)
(* constructs a Jammer with the parsed frequency, rate, gain and duration;  *)
(* --hackrf and --gnuradio construct no USRP class.                         *)
C6_LauncherDispatch ==
  (prog = "launch" /\ args.deps /\ pc \notin {"l_deps", "l_dispatch"})
    => /\ (args.platform = "usrp" /\ args.hop)
            => /\ ctor.cls = "ChannelHopper"
               /\ ctor.rate = args.rate /\ ctor.gain = args.gain
               /\ ctor.hop_interval = args.hop_interval
       /\ (args.platform = "usrp" /\ ~args.hop)
            => /\ ctor.cls = "Jammer"
               /\ ctor.freq = args.freq /\ ctor.rate = args.rate
               /\ ctor.gain = args.gain /\ ctor.duration = args.duration
       /\ args.platform # "usrp" => ctor.cls = "none"

(* C7: run as a script, jammer.py constructs a Jammer (and touches the      *)
(* device) only if 1 MHz <= freq <= 6 GHz; for any other frequency it       *)
(* exits with status 1 before any device call.                              *)
InRange(f) == ~f.nan /\ MinFreq <= f.v /\ f.v <= MaxFreq

C7_FreqValidated ==
  (prog = "jammer" /\ pc \notin {"m_parse", "m_validate"} /\ ParseGainOk(args.gain)
     /\ args.channel \in ChannelChoices \cup {NoChannel})
    => IF InRange(ResolvedFreq)
         THEN TRUE
         ELSE ctor.cls = "none" /\ ~usrp /\ tuneReqs = {} /\ sent = {} /\ status = <<1>>

HopSucceeds == hopPc = "hop_in" /\ hopPc' = "hop_rel"
HopFails    == hopPc = "hop_in" /\ hopPc' = "hop_sleep"

C9_FailedHopRetries ==
  [][/\ HopSucceeds => current_idx' = current_idx + 1
     /\ ~HopSucceeds => current_idx' = current_idx
     /\ HopFails => lastFail' = <<hopFreq>>
     /\ (hopPc' = "hop_locked" /\ hopPc # "hop_locked" /\ lastFail # << >>)
          => hopFreq' = lastFail[1]
     /\ (hopPc' = "hop_done" /\ hopPc # "hop_done") => ~running
    ]_vars

C9_Witness ==
  /\ hopPc = "hop_locked" /\ lastFail = <<hopFreq>> /\ current_idx > 0 /\ running

(* C10: in ChannelHopper no two device operations (the send of the main     *)
(* loop, the retune of the hopping thread, the configuration of setup_tx,   *)
(* the gain reset of cleanup) are in progress at the same time, and each is *)
(* in progress only while its thread holds self.lock.                       *)
C10_DeviceExclusive ==
  IsHopper =>
    /\ Cardinality(inDevice) <= 1
    /\ "retune" \in inDevice => lock = "hop"
    /\ inDevice \cap {"send", "setup", "reset"} # {} => lock = "main"

C10_Witness ==
  /\ inDevice = {"send"} /\ hopPc = "hop_acq" /\ running /\ lock = "main"

====
